---- MODULE Spec2Model ----
(***************************************************************************)
(* A model of src/main.py, the SEO meta-tag checker: normalize_url,        *)
(* extract_meta_tags, generate_feedback and the /analyze request handler.  *)
(*                                                                         *)
(* Python strings are sequences of one-character strings, so that strip,   *)
(* startswith, lower, len and the `in` substring test are computed as the  *)
(* code computes them.  Attribute names and dictionary keys, which the     *)
(* code only ever compares for equality, are TLA+ strings.                 *)
(***************************************************************************)
EXTENDS Integers, Sequences, FiniteSets, TLC

VARIABLES
    pc,        \* the position in the operation being run
    data,      \* request.get_json(), the parsed request body
    url,       \* the local `url`
    prev,      \* the value `url` had before the last normalize_url
    fetched,   \* what requests.get gave: an exception, or a response
    html,      \* the parsed document (resp.text)
    meta,      \* the metadata record
    feedback,  \* the feedback list
    fetches,   \* the number of requests.get calls made
    resp       \* the response returned to the client

vars == <<pc, data, url, prev, fetched, html, meta, feedback, fetches, resp>>

(***************************************************************************)
(* Bounds of the model.                                                    *)
(***************************************************************************)
\* most whitespace characters put on each side of a URL input
MaxPad == 1
\* most elements of a modelled HTML document
MaxElems == 3
\* longest <title> text given to generate_feedback
MaxTitleLen == 67

(***************************************************************************)
(* Python str operations.                                                  *)
(***************************************************************************)
Whitespace == {" ", "\t"}

SeqsUpTo(S, n) == UNION {[1..k -> S] : k \in 0..n}

Repeat(c, n) == [i \in 1..n |-> c]

\* s[i:] and s[:j] of Python, 1-based: the suffix from i, the prefix to j
From(s, i) == SubSeq(s, i, Len(s))
UpTo(s, j) == SubSeq(s, 1, j)

\* str.lstrip(): drop the leading whitespace
LStrip(s) ==
    LET lead == {i \in 1..Len(s) : \A j \in 1..i : s[j] \in Whitespace}
    IN  From(s, Cardinality(lead) + 1)

\* str.rstrip(): drop the trailing whitespace
RStrip(s) ==
    LET trail == {i \in 1..Len(s) : \A j \in i..Len(s) : s[j] \in Whitespace}
    IN  UpTo(s, Len(s) - Cardinality(trail))

\* str.strip()
Strip(s) == RStrip(LStrip(s))

\* str.startswith(p)
StartsWith(s, p) == Len(s) >= Len(p) /\ UpTo(s, Len(p)) = p

\* the `sub in s` substring test
Contains(s, sub) ==
    \E i \in 1..(Len(s) - Len(sub) + 1) : SubSeq(s, i, i + Len(sub) - 1) = sub

LowerChar(c) ==
    CASE c = "N" -> "n" [] c = "O" -> "o" [] c = "I" -> "i" [] c = "D" -> "d"
      [] c = "E" -> "e" [] c = "X" -> "x" [] c = "F" -> "f" [] c = "L" -> "l"
      [] c = "W" -> "w" [] c = "H" -> "h" [] c = "T" -> "t" [] c = "P" -> "p"
      [] OTHER -> c

\* str.lower()
Lower(s) == [i \in 1..Len(s) |-> LowerChar(s[i])]

S_http == <<"h", "t", "t", "p", ":", "/", "/">>
S_https == <<"h", "t", "t", "p", "s", ":", "/", "/">>

(***************************************************************************)
(* normalize_url (main.py 9-13).                                           *)
(***************************************************************************)
\* a variant that tests for the bare prefix "http" instead of the two schemes
normalize_url_bare_prefix(u) ==
    LET s == Strip(u)
    IN  IF ~StartsWith(s, <<"h", "t", "t", "p">>) THEN S_https \o s ELSE s

normalize_url(u) ==
    LET s == Strip(u)
    IN  IF ~StartsWith(s, S_http) /\ ~StartsWith(s, S_https)
        THEN S_https \o s
        ELSE s

\* the URL strings normalize_url is applied to
Pads == SeqsUpTo(Whitespace, MaxPad)

UrlHeads ==
    { <<>>, S_http, S_https,
      <<"h", "t", "t", "p", ":", "/">>,
      <<"h", "t", "t", "p">>,
      <<"H", "T", "T", "P", ":", "/", "/">>,
      <<"t", "p", "s", ":", "/", "/">> }

UrlTails == { <<>>, <<"x">>, <<"x", " ", "y">>, <<" ", "x">>, <<"x", "?", "q">> }

UrlInputs ==
    { l \o h \o t \o r : l \in Pads, h \in UrlHeads, t \in UrlTails, r \in Pads }

NoValue == <<>>

InitNormalize ==
    /\ pc = "normalize"
    /\ url \in UrlInputs
    /\ prev = NoValue
    /\ data = NoValue /\ fetched = NoValue /\ html = NoValue /\ meta = NoValue
    /\ feedback = NoValue /\ fetches = 0 /\ resp = NoValue

\* url = normalize_url(url), the first application
Normalize ==
    /\ pc = "normalize"
    /\ url' = normalize_url(url)
    /\ prev' = url
    /\ pc' = "normalized"
    /\ UNCHANGED <<data, fetched, html, meta, feedback, fetches, resp>>

\* normalize_url applied to its own result
NormalizeAgain ==
    /\ pc = "normalized"
    /\ url' = normalize_url(url)
    /\ prev' = url
    /\ pc' = "renormalized"
    /\ UNCHANGED <<data, fetched, html, meta, feedback, fetches, resp>>

NextNormalize == Normalize \/ NormalizeAgain

SpecNormalize == InitNormalize /\ [][NextNormalize]_vars

\* C4: normalize_url is idempotent, normalize_url(normalize_url(u)) =
\* normalize_url(u) for every input string u, and its result always begins
\* with http:// or https://.
C4_NormalizeIdempotent ==
    /\ pc \in {"normalized", "renormalized"} =>
           StartsWith(url, S_http) \/ StartsWith(url, S_https)
    /\ pc = "renormalized" => url = prev

\* a padded input without a scheme has been normalized twice
C4_Witness ==
    /\ pc = "renormalized"
    /\ url = S_https \o <<"h", "t", "t", "p", "x">>

(***************************************************************************)
(* The parsed document (BeautifulSoup(html, "html.parser"), main.py 17):   *)
(* the elements in document order.  An element has a tag name, its         *)
(* attribute dictionary, and its .string (the empty string where           *)
(* BeautifulSoup gives None; the code tests it only for truth).            *)
(***************************************************************************)
Elem(tag, attrs, string) == [tag |-> tag, attrs |-> attrs, string |-> string]

NoAttrs == [k \in {} |-> <<>>]

S_A == <<"A">>
S_B_padded == <<" ", "B", "\t">>
S_Hi_padded == <<" ", "H", "i", " ">>

\* the meta elements of the model: the field named by `name` or by
\* `property`, with the content attribute absent, plain, or padded
MetaElems ==
    { Elem("meta", (key :> f) @@ c, <<>>) :
        key \in {"name", "property"},
        f \in {"og:title", "og:url"},
        c \in {NoAttrs, "content" :> S_A, "content" :> S_B_padded} }
    \cup
    { Elem("meta", ("name" :> "description") @@ ("content" :> S_B_padded), <<>>),
      Elem("meta", ("property" :> "twitter:card") @@ ("content" :> S_A), <<>>),
      Elem("meta", ("name" :> "robots") @@ ("content" :> S_A), <<>>) }

LinkElems ==
    { Elem("link", ("rel" :> "canonical") @@ ("href" :> S_B_padded), <<>>),
      Elem("link", ("rel" :> "stylesheet") @@ ("href" :> S_A), <<>>) }

TitleElems == { Elem("title", NoAttrs, S_Hi_padded), Elem("title", NoAttrs, <<>>) }

Elements == MetaElems \cup LinkElems \cup TitleElems

Pages == SeqsUpTo(Elements, MaxElems)

\* tag.get(key, ""): the attribute's value, or the empty string
Get(e, key) == IF key \in DOMAIN e.attrs THEN e.attrs[key] ELSE <<>>

\* soup.find(tag, attrs={key: value}): the index of the first element, in
\* document order from i on, with that tag and that attribute value;
\* 0 where find gives None
RECURSIVE FindFrom(_, _, _, _, _)
FindFrom(doc, i, tag, key, value) ==
    IF i > Len(doc) THEN 0
    ELSE IF /\ doc[i].tag = tag
            /\ key \in DOMAIN doc[i].attrs
            /\ doc[i].attrs[key] = value
         THEN i
         ELSE FindFrom(doc, i + 1, tag, key, value)

Find(doc, tag, key, value) == FindFrom(doc, 1, tag, key, value)

\* tag.get(key, "").strip() if tag and tag.get(key) else ""
AttrOf(doc, i, key) ==
    IF i # 0 /\ Get(doc[i], key) # <<>> THEN Strip(Get(doc[i], key)) ELSE <<>>

\* get_meta_by_name (main.py 19-21)
get_meta_by_name(doc, name) == AttrOf(doc, Find(doc, "meta", "name", name), "content")

\* a variant that looks the field up by `name` first and by `property` second
get_meta_by_property_name_first(doc, prop) ==
    LET byName == Find(doc, "meta", "name", prop)
        tag == IF byName = 0 THEN Find(doc, "meta", "property", prop) ELSE byName
    IN  AttrOf(doc, tag, "content")

\* get_meta_by_property (main.py 23-27)
get_meta_by_property(doc, prop) ==
    LET byProperty == Find(doc, "meta", "property", prop)
        tag == IF byProperty = 0 THEN Find(doc, "meta", "name", prop) ELSE byProperty
    IN  AttrOf(doc, tag, "content")

\* get_link_rel (main.py 29-31)
get_link_rel(doc, rel) == AttrOf(doc, Find(doc, "link", "rel", rel), "href")

\* soup.title: the first title element, 0 where there is none
SoupTitle(doc) ==
    LET RECURSIVE first(_)
        first(i) == IF i > Len(doc) THEN 0
                    ELSE IF doc[i].tag = "title" THEN i ELSE first(i + 1)
    IN  first(1)

\* soup.title.string.strip() if soup.title and soup.title.string else ""
TitleOf(doc) ==
    LET t == SoupTitle(doc)
    IN  IF t # 0 /\ doc[t].string # <<>> THEN Strip(doc[t].string) ELSE <<>>

\* the dict literal of main.py 35-51
MetaDict(doc) ==
    "title" :> TitleOf(doc)
    @@ "description" :> get_meta_by_name(doc, "description")
    @@ "robots" :> get_meta_by_name(doc, "robots")
    @@ "canonical" :> get_link_rel(doc, "canonical")
    @@ "og:title" :> get_meta_by_property(doc, "og:title")
    @@ "og:description" :> get_meta_by_property(doc, "og:description")
    @@ "og:image" :> get_meta_by_property(doc, "og:image")
    @@ "og:url" :> get_meta_by_property(doc, "og:url")
    @@ "og:type" :> get_meta_by_property(doc, "og:type")
    @@ "twitter:card" :> get_meta_by_property(doc, "twitter:card")
    @@ "twitter:title" :> get_meta_by_property(doc, "twitter:title")
    @@ "twitter:description" :> get_meta_by_property(doc, "twitter:description")
    @@ "twitter:image" :> get_meta_by_property(doc, "twitter:image")

\* a variant without the og:url fallback of main.py 54-55
extract_meta_tags_no_fallback(doc, u) == MetaDict(doc)

\* extract_meta_tags (main.py 16-57)
extract_meta_tags(doc, u) ==
    LET m == MetaDict(doc)
    IN  IF m["og:url"] = <<>> THEN [m EXCEPT !["og:url"] = u] ELSE m

ResolvedUrls == { S_https \o <<"a", ".", "c", "/">>, S_http \o <<"b">> }

InitExtract ==
    /\ pc = "extract"
    /\ html \in Pages
    /\ url \in ResolvedUrls
    /\ meta = NoValue
    /\ data = NoValue /\ prev = NoValue /\ fetched = NoValue
    /\ feedback = NoValue /\ fetches = 0 /\ resp = NoValue

\* meta = extract_meta_tags(html, url)
Extract ==
    /\ pc = "extract"
    /\ meta' = extract_meta_tags(html, url)
    /\ pc' = "extracted"
    /\ UNCHANGED <<data, url, prev, fetched, html, feedback, fetches, resp>>

NextExtract == Extract

SpecExtract == InitExtract /\ [][NextExtract]_vars

\* the fields read with get_meta_by_property
PropertyFields ==
    { "og:title", "og:description", "og:image", "og:url", "og:type",
      "twitter:card", "twitter:title", "twitter:description", "twitter:image" }

\* the document has an element with this tag and this attribute value
HasElem(doc, tag, key, value) ==
    \E i \in 1..Len(doc) :
        doc[i].tag = tag /\ key \in DOMAIN doc[i].attrs /\ doc[i].attrs[key] = value

\* the tag a key is read from is absent from the document
TagAbsent(doc, k) ==
    CASE k = "title" -> \A i \in 1..Len(doc) : doc[i].tag # "title"
      [] k \in {"description", "robots"} -> ~HasElem(doc, "meta", "name", k)
      [] k = "canonical" -> ~HasElem(doc, "link", "rel", "canonical")
      [] OTHER -> ~HasElem(doc, "meta", "property", k) /\ ~HasElem(doc, "meta", "name", k)

\* C5: the record returned by extract_meta_tags has exactly the 13 keys; a
\* key whose tag is absent has the empty string as value, except og:url,
\* which equals the resolved URL whenever the page lookup for og:url yields
\* the empty string.
C5_AllKeysPresent ==
    pc = "extracted" =>
        /\ DOMAIN meta =
               { "title", "description", "robots", "canonical",
                 "og:title", "og:description", "og:image", "og:url", "og:type",
                 "twitter:card", "twitter:title", "twitter:description",
                 "twitter:image" }
        /\ Cardinality(DOMAIN meta) = 13
        /\ \A k \in DOMAIN meta \ {"og:url"} : TagAbsent(html, k) => meta[k] = <<>>
        /\ get_meta_by_property(html, "og:url") = <<>> => meta["og:url"] = url
        /\ get_meta_by_property(html, "og:url") # <<>> =>
               meta["og:url"] = get_meta_by_property(html, "og:url")

\* a page with a title and nothing else has been extracted: every other key
\* is empty and og:url is the resolved URL
C5_Witness ==
    /\ pc = "extracted"
    /\ html = <<Elem("title", NoAttrs, S_Hi_padded)>>
    /\ url = S_https \o <<"a", ".", "c", "/">>
    /\ meta["title"] = <<"H", "i">>
    /\ meta["og:url"] = url
    /\ \A k \in DOMAIN meta \ {"title", "og:url"} : meta[k] = <<>>

\* the value the claim gives field f: the content (as conv reads it) of the
\* first meta element with property f, else of the first with name f, else
\* the empty string
ClaimedValue(doc, f, conv(_)) ==
    LET isP(i) == /\ doc[i].tag = "meta" /\ "property" \in DOMAIN doc[i].attrs
                  /\ doc[i].attrs["property"] = f
        isN(i) == /\ doc[i].tag = "meta" /\ "name" \in DOMAIN doc[i].attrs
                  /\ doc[i].attrs["name"] = f
        firstP == {i \in 1..Len(doc) : isP(i) /\ \A j \in 1..(i - 1) : ~isP(j)}
        firstN == {i \in 1..Len(doc) : isN(i) /\ \A j \in 1..(i - 1) : ~isN(j)}
        pick == IF firstP # {} THEN firstP ELSE firstN
    IN  IF pick = {} THEN <<>>
        ELSE conv(Get(doc[CHOOSE i \in pick : TRUE], "content"))

\* the record carries the claimed value of every property field; for og:url
\* an empty claimed value is replaced by the resolved URL (main.py 54-55)
RecordMatches(conv(_)) ==
    \A f \in PropertyFields :
        LET v == ClaimedValue(html, f, conv)
        IN  meta[f] = IF f = "og:url" /\ v = <<>> THEN url ELSE v

Identity(s) == s

\* C6 as stated: the extracted value of an Open Graph or Twitter field is
\* the content of the first meta element whose property equals the field,
\* else of the first whose name equals it, else the empty string.
C6_AsStated == pc = "extracted" => RecordMatches(Identity)

\* C6 as amended: the extracted value of an Open Graph or Twitter field is
\* the content, with leading and trailing whitespace removed, of the first
\* meta element whose property equals the field; the first element whose
\* name equals it is used only if no property element exists; the value is
\* empty if neither exists.  A property element wins over a name element
\* whatever their order in the document.
C6_PropertyThenName == pc = "extracted" => RecordMatches(Strip)

\* a name element precedes a property element for og:title, and the record
\* carries the property element's content
C6_Witness ==
    /\ pc = "extracted"
    /\ html = << Elem("meta", ("name" :> "og:title") @@ ("content" :> S_A), <<>>),
                 Elem("meta", ("property" :> "og:title") @@ ("content" :> S_B_padded), <<>>) >>
    /\ meta["og:title"] = <<"B">>

(***************************************************************************)
(* generate_feedback (main.py 60-123).  A feedback item is the dict built  *)
(* by add(level, message); a message is its fixed text followed by the     *)
(* values the f-string interpolates.                                       *)
(***************************************************************************)
MsgTitleMissing == "Missing <title> tag. Every page should have a unique, descriptive title."
MsgTitleShort == "Title is quite short ({len(title)} chars). Aim for 30-60 characters."
MsgTitleLong == "Title may be too long ({len(title)} chars). It might get truncated in search results."
MsgTitleOk == "Title length looks good."
MsgDescMissing == "Missing meta description. Add a concise, compelling description (50-160 characters)."
MsgDescShort == "Description is short ({len(description)} chars). Aim for 50-160 characters."
MsgDescLong == "Description is long ({len(description)} chars). It might be truncated in search."
MsgDescOk == "Meta description length looks good."
MsgNoindex == "robots tag contains 'noindex'. This page will not appear in search results."
MsgNofollow == "robots tag contains 'nofollow'. Search engines won't follow links on this page."
MsgRobotsOk == "No robots meta tag found. Default is index, follow (usually fine)."
MsgCanonicalMissing == "Missing canonical link tag. Consider adding one to avoid duplicate content issues."
MsgCanonicalOk == "Canonical URL is set."
MsgOgTextMissing == "Open Graph title/description missing or incomplete. Social shares may look generic."
MsgOgTextOk == "Open Graph title and description are present."
MsgOgImageMissing == "Open Graph image missing. Social shares may not show a nice preview image."
MsgOgImageOk == "Open Graph image is set."
MsgTwitterMissing == "twitter:card missing. Set it to 'summary' or 'summary_large_image' for better Twitter previews."
MsgTwitterOk == "Twitter card type is '{meta.get('twitter:card')}'."

S_noindex == <<"n", "o", "i", "n", "d", "e", "x">>
S_nofollow == <<"n", "o", "f", "o", "l", "l", "o", "w">>

\* add(level, message) appends this item
Item(level, message) == [level |-> level, message |-> message]

\* meta.get(key, "")
MetaGet(m, k) == IF k \in DOMAIN m THEN m[k] ELSE <<>>

\* a variant whose short-title test is len(title) <= 30
TitleCheck_off_by_one(m) ==
    LET title == MetaGet(m, "title")
    IN  IF title = <<>> THEN <<Item("error", <<MsgTitleMissing>>)>>
        ELSE IF Len(title) <= 30 THEN <<Item("warning", <<MsgTitleShort, Len(title)>>)>>
        ELSE IF Len(title) > 65 THEN <<Item("warning", <<MsgTitleLong, Len(title)>>)>>
        ELSE <<Item("ok", <<MsgTitleOk>>)>>

\* the title checks (main.py 66-76)
TitleCheck(m) ==
    LET title == MetaGet(m, "title")
    IN  IF title = <<>> THEN <<Item("error", <<MsgTitleMissing>>)>>
        ELSE IF Len(title) < 30 THEN <<Item("warning", <<MsgTitleShort, Len(title)>>)>>
        ELSE IF Len(title) > 65 THEN <<Item("warning", <<MsgTitleLong, Len(title)>>)>>
        ELSE <<Item("ok", <<MsgTitleOk>>)>>

\* the description checks (main.py 78-88)
DescriptionCheck(m) ==
    LET description == MetaGet(m, "description")
    IN  IF description = <<>> THEN <<Item("error", <<MsgDescMissing>>)>>
        ELSE IF Len(description) < 50
             THEN <<Item("warning", <<MsgDescShort, Len(description)>>)>>
        ELSE IF Len(description) > 170
             THEN <<Item("warning", <<MsgDescLong, Len(description)>>)>>
        ELSE <<Item("ok", <<MsgDescOk>>)>>

\* a variant that tests the value as written, without lower()
RobotsCheck_case_sensitive(m) ==
    LET robots == MetaGet(m, "robots")
    IN  IF robots # <<>>
        THEN (IF Contains(robots, S_noindex)
              THEN <<Item("warning", <<MsgNoindex>>)>> ELSE <<>>)
             \o (IF Contains(robots, S_nofollow)
                 THEN <<Item("warning", <<MsgNofollow>>)>> ELSE <<>>)
        ELSE <<Item("ok", <<MsgRobotsOk>>)>>

\* a variant that reports `ok` whenever no directive fired
RobotsCheck_ok_without_directive(m) ==
    LET robots == Lower(MetaGet(m, "robots"))
    IN  IF Contains(robots, S_noindex) \/ Contains(robots, S_nofollow)
        THEN (IF Contains(robots, S_noindex)
              THEN <<Item("warning", <<MsgNoindex>>)>> ELSE <<>>)
             \o (IF Contains(robots, S_nofollow)
                 THEN <<Item("warning", <<MsgNofollow>>)>> ELSE <<>>)
        ELSE <<Item("ok", <<MsgRobotsOk>>)>>

\* the robots checks (main.py 90-98)
RobotsCheck(m) ==
    LET robots == Lower(MetaGet(m, "robots"))
    IN  IF robots # <<>>
        THEN (IF Contains(robots, S_noindex)
              THEN <<Item("warning", <<MsgNoindex>>)>> ELSE <<>>)
             \o (IF Contains(robots, S_nofollow)
                 THEN <<Item("warning", <<MsgNofollow>>)>> ELSE <<>>)
        ELSE <<Item("ok", <<MsgRobotsOk>>)>>

\* the canonical check (main.py 100-104)
CanonicalCheck(m) ==
    IF MetaGet(m, "canonical") = <<>>
    THEN <<Item("warning", <<MsgCanonicalMissing>>)>>
    ELSE <<Item("ok", <<MsgCanonicalOk>>)>>

\* the Open Graph title/description check (main.py 106-110)
OgTextCheck(m) ==
    IF MetaGet(m, "og:title") = <<>> \/ MetaGet(m, "og:description") = <<>>
    THEN <<Item("warning", <<MsgOgTextMissing>>)>>
    ELSE <<Item("ok", <<MsgOgTextOk>>)>>

\* the Open Graph image check (main.py 112-115)
OgImageCheck(m) ==
    IF MetaGet(m, "og:image") = <<>>
    THEN <<Item("warning", <<MsgOgImageMissing>>)>>
    ELSE <<Item("ok", <<MsgOgImageOk>>)>>

\* the Twitter card check (main.py 117-121)
TwitterCheck(m) ==
    IF MetaGet(m, "twitter:card") = <<>>
    THEN <<Item("warning", <<MsgTwitterMissing>>)>>
    ELSE <<Item("ok", <<MsgTwitterOk, MetaGet(m, "twitter:card")>>)>>

\* a variant that runs the canonical check before the robots checks
generate_feedback_canonical_first(m) ==
    TitleCheck(m) \o DescriptionCheck(m) \o CanonicalCheck(m) \o RobotsCheck(m)
        \o OgTextCheck(m) \o OgImageCheck(m) \o TwitterCheck(m)

\* generate_feedback: the checks append to `feedback` in this order
generate_feedback(m) ==
    TitleCheck(m) \o DescriptionCheck(m) \o RobotsCheck(m) \o CanonicalCheck(m)
        \o OgTextCheck(m) \o OgImageCheck(m) \o TwitterCheck(m)

\* the metadata records generate_feedback is applied to
TitleValues == { Repeat("t", n) : n \in 0..MaxTitleLen } \cup { <<" ">> }

DescriptionValues == { Repeat("d", n) : n \in {0, 1, 49, 50, 170, 171} }

RobotsValues ==
    { <<>>, <<" ">>, S_noindex, S_nofollow,
      S_noindex \o <<",", " ">> \o S_nofollow,
      S_nofollow \o <<",", " ">> \o S_noindex,
      <<"N", "O", "I", "N", "D", "E", "X">>,
      <<"N", "o", "F", "o", "l", "l", "o", "w">>,
      <<"N", "o", "I", "n", "d", "e", "x">> \o <<",">> \o <<"N", "O", "F", "O", "L", "L", "O", "W">>,
      <<"i", "n", "d", "e", "x", ",", " ", "f", "o", "l", "l", "o", "w">>,
      <<"n", "o", "n", "e">>,
      <<"n", "o", "i", "n", "d", "e">> }

PresenceValues == { <<>>, <<"x">> }

Records ==
    { "title" :> t @@ "description" :> d @@ "robots" :> r @@ "canonical" :> c
      @@ "og:title" :> ot @@ "og:description" :> od @@ "og:image" :> oi
      @@ "og:url" :> S_https \o <<"a">> @@ "og:type" :> <<>>
      @@ "twitter:card" :> tc @@ "twitter:title" :> <<>>
      @@ "twitter:description" :> <<>> @@ "twitter:image" :> <<>> :
        t \in TitleValues, d \in DescriptionValues, r \in RobotsValues,
        c \in PresenceValues, ot \in PresenceValues, od \in PresenceValues,
        oi \in PresenceValues, tc \in PresenceValues }

InitFeedback ==
    /\ pc = "feedback"
    /\ meta \in Records
    /\ feedback = NoValue
    /\ data = NoValue /\ url = NoValue /\ prev = NoValue /\ html = NoValue
    /\ fetched = NoValue
    /\ fetches = 0 /\ resp = NoValue

\* feedback = generate_feedback(meta)
GenerateFeedback ==
    /\ pc = "feedback"
    /\ feedback' = generate_feedback(meta)
    /\ pc' = "generated"
    /\ UNCHANGED <<data, url, prev, fetched, html, meta, fetches, resp>>

NextFeedback == GenerateFeedback

SpecFeedback == InitFeedback /\ [][NextFeedback]_vars

\* the check (1..7, in the order of the rule table) an item's message is of
CheckOfItem(item) ==
    LET text == item.message[1]
    IN  CASE text \in {MsgTitleMissing, MsgTitleShort, MsgTitleLong, MsgTitleOk} -> 1
          [] text \in {MsgDescMissing, MsgDescShort, MsgDescLong, MsgDescOk} -> 2
          [] text \in {MsgNoindex, MsgNofollow, MsgRobotsOk} -> 3
          [] text \in {MsgCanonicalMissing, MsgCanonicalOk} -> 4
          [] text \in {MsgOgTextMissing, MsgOgTextOk} -> 5
          [] text \in {MsgOgImageMissing, MsgOgImageOk} -> 6
          [] text \in {MsgTwitterMissing, MsgTwitterOk} -> 7
          [] OTHER -> 0

\* the positions in `feedback` of the items of check c
ItemsOf(c) == { i \in 1..Len(feedback) : CheckOfItem(feedback[i]) = c }

\* s contains sub, compared without regard to case
ContainsIgnoreCase(s, sub) ==
    \E i \in 1..Len(s) :
        /\ i + Len(sub) - 1 <= Len(s)
        /\ \A j \in 1..Len(sub) : LowerChar(s[i + j - 1]) = sub[j]

\* C7: generate_feedback emits exactly one title item, whose level depends
\* on the title length n alone: n = 0 error, 1..29 warning, 30..65 ok,
\* 66 and more warning.
C7_TitleLevel ==
    pc = "generated" =>
        LET n == Len(meta["title"])
        IN  /\ Cardinality(ItemsOf(1)) = 1
            /\ \A i \in ItemsOf(1) :
                   feedback[i].level =
                       IF n = 0 THEN "error"
                       ELSE IF n <= 29 THEN "warning"
                       ELSE IF n <= 65 THEN "ok"
                       ELSE "warning"

\* a title of exactly 30 characters has been judged ok
C7_Witness ==
    /\ pc = "generated"
    /\ Len(meta["title"]) = 30
    /\ feedback[1].level = "ok"
    /\ feedback[1].message = <<MsgTitleOk>>

\* C8: an empty robots value gives exactly one ok item; a non-empty one
\* gives a noindex warning if it contains noindex and, independently, a
\* nofollow warning if it contains nofollow, compared case-insensitively,
\* the noindex warning always first.
C8_RobotsItems ==
    pc = "generated" =>
        LET r == meta["robots"]
            at == ItemsOf(3)
            items == [i \in 1..Cardinality(at) |->
                        feedback[CHOOSE k \in at :
                                   Cardinality({l \in at : l <= k}) = i]]
            noindex == <<[level |-> "warning", message |-> <<MsgNoindex>>]>>
            nofollow == <<[level |-> "warning", message |-> <<MsgNofollow>>]>>
        IN  items =
              IF r = <<>>
              THEN <<[level |-> "ok", message |-> <<MsgRobotsOk>>]>>
              ELSE (IF ContainsIgnoreCase(r, S_noindex) THEN noindex ELSE <<>>)
                   \o (IF ContainsIgnoreCase(r, S_nofollow) THEN nofollow ELSE <<>>)

\* a robots value with nofollow written before noindex: both warnings are
\* emitted, noindex first
C8_Witness ==
    /\ pc = "generated"
    /\ meta["robots"] = S_nofollow \o <<",", " ">> \o S_noindex
    /\ \E i \in 1..(Len(feedback) - 1) :
           /\ feedback[i].message = <<MsgNoindex>>
           /\ feedback[i + 1].message = <<MsgNofollow>>

\* C9: the items appear in the fixed check order (title, description,
\* robots, canonical, Open Graph title/description, Open Graph image,
\* Twitter card): no item of a later check precedes an item of an earlier
\* one, whatever the checks' outcomes.
C9_FixedOrder ==
    pc = "generated" =>
        /\ \A i \in 1..Len(feedback) : CheckOfItem(feedback[i]) \in 1..7
        /\ \A i, j \in 1..Len(feedback) :
               i < j => CheckOfItem(feedback[i]) <= CheckOfItem(feedback[j])
        /\ CheckOfItem(feedback[1]) = 1
        /\ CheckOfItem(feedback[2]) = 2
        /\ \A c \in 4..7 : CheckOfItem(feedback[Len(feedback) - (7 - c)]) = c

\* a record whose robots check emits two items: eight items, in order
C9_Witness ==
    /\ pc = "generated"
    /\ Len(feedback) = 8
    /\ [i \in 1..8 |-> CheckOfItem(feedback[i])] = <<1, 2, 3, 3, 4, 5, 6, 7>>
    /\ feedback[1].level = "error"
    /\ feedback[5].level = "ok"

\* C10: generate_feedback returns 6 to 8 items with levels error, warning
\* or ok; error comes only from the title-presence and description-presence
\* checks; every check but robots contributes exactly one item; robots
\* contributes 0, 1 or 2, and 0 exactly when the robots value is non-empty
\* and contains neither noindex nor nofollow.
C10_ItemCounts ==
    pc = "generated" =>
        /\ Len(feedback) \in 6..8
        /\ \A i \in 1..Len(feedback) :
               /\ feedback[i].level \in {"error", "warning", "ok"}
               /\ feedback[i].level = "error" =>
                      feedback[i].message \in {<<MsgTitleMissing>>, <<MsgDescMissing>>}
        /\ \A c \in {1, 2, 4, 5, 6, 7} : Cardinality(ItemsOf(c)) = 1
        /\ Cardinality(ItemsOf(3)) \in 0..2
        /\ Cardinality(ItemsOf(3)) = 0 <=>
               /\ meta["robots"] # <<>>
               /\ ~ContainsIgnoreCase(meta["robots"], S_noindex)
               /\ ~ContainsIgnoreCase(meta["robots"], S_nofollow)

\* robots "index, follow": the robots check leaves no item, six in all
C10_Witness ==
    /\ pc = "generated"
    /\ meta["robots"] = <<"i", "n", "d", "e", "x", ",", " ", "f", "o", "l", "l", "o", "w">>
    /\ Len(feedback) = 6
    /\ ItemsOf(3) = {}

(***************************************************************************)
(* The /analyze handler (main.py 129-156).  The request body is the JSON   *)
(* value request.get_json() returns.  The handler is one synchronous       *)
(* function; it is modelled in two steps, split at the blocking            *)
(* requests.get call, so that a state exists in which the fetch is about   *)
(* to be made.                                                             *)
(***************************************************************************)
JNull == [kind |-> "null"]
JArray == [kind |-> "array"]
JNumber == [kind |-> "number"]
JString(s) == [kind |-> "string", value |-> s]
JObject(fields) == [kind |-> "object", fields |-> fields]

\* the JSON bodies posted to /analyze
Bodies ==
    { JNull, JArray, JObject(NoAttrs) }
    \cup { JObject("url" :> v) : v \in {JNull, JNumber} }
    \cup { JObject("url" :> JString(s)) : s \in UrlInputs }

Returned(v) == [raised |-> "", value |-> v]
Raised(e) == [raised |-> e, value |-> <<>>]

\* a variant that reads the url field without strip()
UrlField_no_strip(d) ==
    IF d.kind # "object" THEN Raised("AttributeError")
    ELSE LET v == IF "url" \in DOMAIN d.fields THEN d.fields["url"] ELSE JString(<<>>)
         IN  IF v.kind # "string" THEN Raised("AttributeError")
             ELSE Returned(v.value)

\* data.get("url", "").strip() (main.py 132): None and lists have no get,
\* None and numbers have no strip
UrlField(d) ==
    IF d.kind # "object" THEN Raised("AttributeError")
    ELSE LET v == IF "url" \in DOMAIN d.fields THEN d.fields["url"] ELSE JString(<<>>)
         IN  IF v.kind # "string" THEN Raised("AttributeError")
             ELSE Returned(Strip(v.value))

\* what requests.get gives: an exception raised, or a response with a
\* final status code and a body
FetchExceptions == { "ConnectionError", "Timeout", "InvalidURL" }

FetchStatuses == { 200, 304, 404, 503 }

FetchTexts == SeqsUpTo(Elements, 1)

FetchOutcomes ==
    { [raised |-> e, status_code |-> 0, text |-> <<>>] : e \in FetchExceptions }
    \cup { [raised |-> "", status_code |-> s, text |-> p] :
             s \in FetchStatuses, p \in FetchTexts }

\* a variant that raises for the 5xx statuses only
RaisesForStatus_server_only(status_code) == 500 <= status_code /\ status_code < 600

\* resp.raise_for_status() raises HTTPError for the 4xx and 5xx statuses
RaisesForStatus(status_code) == 400 <= status_code /\ status_code < 600

\* jsonify({"error": ...}), 400
ErrorResponse(message) == [status |-> 400, body |-> "error" :> message]

\* urlparse(url): scheme://netloc + path, the URL up to its query or fragment
DisplayUrl(u) ==
    LET cut == {i \in 1..Len(u) : u[i] \in {"?", "#"}}
    IN  IF cut = {} THEN u
        ELSE UpTo(u, (CHOOSE i \in cut : \A j \in cut : i <= j) - 1)

\* jsonify({...}) of main.py 151-156, with the default status
SuccessResponse(u, m, f) ==
    [status |-> 200,
     body |-> "url" :> u @@ "display_url" :> DisplayUrl(u)
              @@ "meta" :> m @@ "feedback" :> f]

\* an exception no handler catches: the framework's 500 page
Unhandled(e) == [status |-> 500, body |-> NoAttrs, unhandled |-> e]

Init ==
    /\ pc = "request"
    /\ data \in Bodies
    /\ url = NoValue /\ prev = NoValue /\ fetched = NoValue /\ html = NoValue
    /\ meta = NoValue /\ feedback = NoValue
    /\ fetches = 0
    /\ resp = NoValue

\* main.py 131-137: read and trim the url field, refuse an empty one,
\* normalize the rest
AnalyzeBegin ==
    /\ pc = "request"
    /\ LET u == UrlField(data)
       IN  IF u.raised # ""
           THEN /\ resp' = Unhandled(u.raised)
                /\ pc' = "done"
                /\ UNCHANGED <<url, prev>>
           ELSE IF u.value = <<>>
           THEN /\ resp' = ErrorResponse(<<"No URL provided.">>)
                /\ pc' = "done"
                /\ UNCHANGED <<url, prev>>
           ELSE /\ url' = normalize_url(u.value)
                /\ prev' = u.value
                /\ pc' = "fetch"
                /\ UNCHANGED resp
    /\ UNCHANGED <<data, fetched, html, meta, feedback, fetches>>

\* main.py 139-156: the one requests.get, then either the error response
\* of the except clause or extraction, feedback and the success response
AnalyzeFetch ==
    /\ pc = "fetch"
    /\ fetches' = fetches + 1
    /\ \E r \in FetchOutcomes :
        /\ fetched' = r
        /\ IF r.raised # ""
           THEN /\ resp' = ErrorResponse(<<"Error fetching URL: ", r.raised>>)
                /\ UNCHANGED <<html, meta, feedback>>
           ELSE IF RaisesForStatus(r.status_code)
           THEN /\ resp' = ErrorResponse(<<"Error fetching URL: ", "HTTPError", r.status_code>>)
                /\ UNCHANGED <<html, meta, feedback>>
           ELSE /\ html' = r.text
                /\ meta' = extract_meta_tags(r.text, url)
                /\ feedback' = generate_feedback(extract_meta_tags(r.text, url))
                /\ resp' = SuccessResponse(url, extract_meta_tags(r.text, url),
                                           generate_feedback(extract_meta_tags(r.text, url)))
    /\ pc' = "done"
    /\ UNCHANGED <<data, url, prev>>

Next == AnalyzeBegin \/ AnalyzeFetch

Spec == Init /\ [][Next]_vars

\* the request carries a url field that is a string
HasUrlString == data.kind = "object" /\ "url" \in DOMAIN data.fields
                /\ data.fields["url"].kind = "string"

\* ... that is empty or only whitespace
EmptyUrlRequest == HasUrlString /\ Strip(data.fields["url"].value) = <<>>

\* ... that is not empty once trimmed
NonEmptyUrlRequest == HasUrlString /\ Strip(data.fields["url"].value) # <<>>

IsErrorResponse == resp.status \in 400..499 /\ DOMAIN resp.body = {"error"}

\* C1: when the submitted url is the empty string or only whitespace, the
\* request ends in an error response with a client-error status and no
\* fetch is attempted; the fetch step is reached only after the non-empty
\* check has passed.
C1_EmptyUrlNoFetch ==
    /\ EmptyUrlRequest => /\ fetches = 0
                          /\ pc # "fetch"
                          /\ fetched = NoValue
                          /\ pc = "done" => IsErrorResponse
    /\ (pc = "fetch" \/ fetches > 0) => NonEmptyUrlRequest

\* a whitespace-only url has been answered with the error, without a fetch
C1_Witness ==
    /\ pc = "done"
    /\ data = JObject("url" :> JString(<<" ", "\t">>))
    /\ resp = ErrorResponse(<<"No URL provided.">>)
    /\ fetches = 0

\* the fetch failed: an exception, or a status outside 2xx
FetchFailed_non_success ==
    fetched.raised # "" \/ fetched.status_code \notin 200..299

\* the fetch failed: an exception, or a status raise_for_status rejects
FetchFailed_4xx_5xx ==
    fetched.raised # "" \/ fetched.status_code \in 400..599

\* the request made one fetch and, if it failed, ended with the bare error
OneFetchNoPartial(failed) ==
    /\ fetches <= 1
    /\ (NonEmptyUrlRequest /\ pc = "done") =>
           /\ fetches = 1
           /\ failed => /\ IsErrorResponse
                        /\ meta = NoValue
                        /\ feedback = NoValue
                        /\ html = NoValue

IsSuccess ==
    resp.status = 200 /\ DOMAIN resp.body = {"url", "display_url", "meta", "feedback"}
IsEmptyInputError ==
    IsErrorResponse /\ resp.body["error"] = <<"No URL provided.">>
IsFetchError ==
    IsErrorResponse /\ resp.body["error"][1] = "Error fetching URL: "

\* C3: every request, whatever its JSON body, ends in a success response,
\* an EmptyInput error response or a Fetch error response, never in an
\* unhandled exception.
C3_ThreeOutcomes ==
    pc = "done" => IsSuccess \/ IsEmptyInputError \/ IsFetchError

====
